---- MODULE Spec2Model ----
(***************************************************************************)
(* request_recorder: the capture server (server.go, httpHandler and the    *)
(* body classifiers), the record model (main.go), the header codec         *)
(* (header.go) and the replay client (clientCmd, loadRecord,               *)
(* parseRecordBody).                                                       *)
(*                                                                         *)
(* File names are records [sign, digits, base, part, ext] standing for the *)
(* string  sign ++ digits ++ base ++ ("-" ++ part) ++ ext ; a path is a    *)
(* sequence of names, relative to the working directory of the server.     *)
(* Bytes are "1" (a digit), " " (a space) and "#" (neither a letter, a     *)
(* digit nor a space).                                                     *)
(***************************************************************************)
EXTENDS Integers, Sequences, FiniteSets, TLC

\* ---------------------------------------------------------------- bounds
\* concurrent request handlers of the capture server
NHandlers == 2
\* the peek window of saveBody (64*1024 bytes in the source), scaled
PeekWindow == 2
\* the cap of readJson (1<<20 bytes in the source), scaled
JsonCap == 2
\* the largest number of parts of a multipart body
MaxParts == 2

\* the largest int32 (num is an int32, atomic.AddInt32)
MaxInt32 == 2147483647

Handlers == 1 .. NHandlers

Min(a, b) == IF a < b THEN a ELSE b

Take(s, n) == SubSeq(s, 1, Min(n, Len(s)))

Drop(s, n) == SubSeq(s, Min(n, Len(s)) + 1, Len(s))

\* all sequences over S of length at most n
RECURSIVE SeqsUpTo(_, _)
SeqsUpTo(S, n) ==
    IF n = 0 THEN {<<>>}
    ELSE LET shorter == SeqsUpTo(S, n - 1)
         IN  shorter \cup {Append(s, x) : s \in {t \in shorter : Len(t) = n - 1}, x \in S}

\* ---------------------------------------------------------------- numbers
\* the smallest int32
MinInt32 == 0 - MaxInt32 - 1

\* atomic.AddInt32(&num, 1): the new value, wrapping at 32 bits
AddInt32(n) == IF n = MaxInt32 THEN MinInt32 ELSE n + 1

RECURSIVE DecDigits(_)
DecDigits(n) == IF n < 10 THEN <<n>> ELSE Append(DecDigits(n \div 10), n % 10)

\* the decimal digits of the absolute value of n
AbsDigits(n) ==
    IF n >= 0 THEN DecDigits(n)
    ELSE LET d == (10 - (n % 10)) % 10
         IN  IF n + d = 0 THEN <<d>> ELSE Append(DecDigits(0 - ((n + d) \div 10)), d)

RECURSIVE PadLeft(_, _)
PadLeft(ds, w) == IF Len(ds) >= w THEN ds ELSE PadLeft(<<0>> \o ds, w)

\* strconv.Atoi of a digit string; the empty string is an error (-1 here)
RECURSIVE Atoi(_)
Atoi(ds) ==
    IF ds = <<>> THEN -1
    ELSE IF Len(ds) = 1 THEN ds[1]
    ELSE 10 * Atoi(SubSeq(ds, 1, Len(ds) - 1)) + ds[Len(ds)]

\* ---------------------------------------------------------------- file names
Name(sign, digits, base, part, ext) ==
    [sign |-> sign, digits |-> digits, base |-> base, part |-> part, ext |-> ext]

\* the empty string, as a file name
NoName == Name("", <<>>, "", "", "")

\* strings.IndexFunc(name, non-digit) and name[:pos]: the leading digits, and
\* whether a non-digit character follows them (pos /= -1)
HasNonDigit(name) ==
    name.sign /= "" \/ name.base /= "" \/ name.part /= "" \/ name.ext /= ""

LeadingDigits(name) == IF name.sign /= "" THEN <<>> ELSE name.digits

\* fmt.Sprintf("%04d_%s_%s_%s.json", requestNum, time, method, path) and the
\* replacement of "__": the width 4 counts the sign of a negative number
RecordFilename(requestNum, base) ==
    IF requestNum >= 0
    THEN Name("", PadLeft(AbsDigits(requestNum), 4), base, "", ".json")
    ELSE Name("-", PadLeft(AbsDigits(requestNum), 3), base, "", ".json")

\* strings.TrimSuffix(filename, ".json")
TrimJson(name) == IF name.ext = ".json" /\ name.part = "" THEN [name EXCEPT !.ext = ""] ELSE name

\* fmt.Sprintf("%s-body.dat", base)
BodyHint(filename) == [TrimJson(filename) EXCEPT !.part = "body", !.ext = ".dat"]

\* fmt.Sprintf("%s-multipart_%d.dat", base, n)
MultipartLabel(n) == <<"multipart_0", "multipart_1", "multipart_2", "multipart_3", "multipart_4">>[n + 1]

MultipartHint(filename, n) ==
    [TrimJson(filename) EXCEPT !.part = MultipartLabel(n), !.ext = ".dat"]

\* fmt.Sprintf("%s-%s", base, p.FileName())
PartHint(filename, file) ==
    [TrimJson(filename) EXCEPT !.part = file.stem, !.ext = file.ext]

\* filepath.Join(dir, name)
Join(dir, name) == Append(dir, name)

\* filepath.Base(path)
Base(path) == path[Len(path)]

\* the directory a path lies in
Dir1(path) == SubSeq(path, 1, Len(path) - 1)

\* ---------------------------------------------------------------- the file system
\* a file system maps paths to directories, byte files and record files
DirEntry == [kind |-> "dir"]

BytesFile(bytes) == [kind |-> "bytes", bytes |-> bytes]

RecordFile(json) == [kind |-> "record", json |-> json]

IsFile(files, path) == path \in DOMAIN files /\ files[path].kind /= "dir"

\* os.Create(path): the parent must be a directory; the file is truncated
CanCreate(files, path, diskOk) ==
    /\ diskOk
    /\ (Len(path) = 1 \/ (Dir1(path) \in DOMAIN files /\ files[Dir1(path)].kind = "dir"))
    /\ (path \in DOMAIN files => files[path].kind /= "dir")

WriteFile(files, path, content) == (path :> content) @@ files

\* f.ReadDir of a directory: the names in it, each with IsDir()
ReadDir(files, dir) ==
    {[name |-> Base(p), isDir |-> files[p].kind = "dir"] :
        p \in {q \in DOMAIN files : Len(q) = Len(dir) + 1 /\ SubSeq(q, 1, Len(dir)) = dir}}

\* maxFileNum(dir): the largest leading number of the files of dir, from 1
maxFileNum(files, dir) ==
    LET nums == {Atoi(LeadingDigits(d.name)) :
                    d \in {e \in ReadDir(files, dir) :
                              /\ ~e.isDir
                              /\ HasNonDigit(e.name)
                              /\ LeadingDigits(e.name) /= <<>>}}
        larger == {n \in nums : n > 1}
    IN  IF larger = {} THEN 1 ELSE CHOOSE n \in larger : \A m \in larger : m <= n

\* ---------------------------------------------------------------- content types
MultipartType == "multipart/form-data; boundary=B"

JsonType == "application/json"

PngType == "image/png"

UnknownType == "application/x-unk"

\* strings.Contains(contentType, "multipart/form-data")
isContentMultiPart(contentType) == contentType = MultipartType

\* strings.Contains(contentType, "/json")
isContentJson(contentType) == contentType = JsonType

\* mime.ExtensionsByType(contentType): empty for a type with no registered
\* extension and for the empty string (an error, ignored by the caller)
ExtensionsByType(contentType) ==
    CASE contentType = PngType -> <<".png">>
      [] contentType = JsonType -> <<".json">>
      [] OTHER -> <<>>

\* mime.TypeByExtension(ext)
TypeByExtension(ext) ==
    CASE ext = ".png" -> PngType
      [] ext = ".json" -> JsonType
      [] OTHER -> ""

\* ---------------------------------------------------------------- bytes
Byte == {"1", " ", "#"}

\* unicode.IsLetter(r) || unicode.IsDigit(r) || unicode.IsSpace(r)
IsPrintable(b) == b \in {"1", " "}

\* json.Valid(data), on this alphabet: a number between optional spaces
RECURSIVE TrimSpaceLeft(_)
TrimSpaceLeft(s) == IF s /= <<>> /\ s[1] = " " THEN TrimSpaceLeft(Tail(s)) ELSE s

RECURSIVE TrimSpaceRight(_)
TrimSpaceRight(s) ==
    IF s /= <<>> /\ s[Len(s)] = " " THEN TrimSpaceRight(SubSeq(s, 1, Len(s) - 1)) ELSE s

JsonValid(data) ==
    LET t == TrimSpaceRight(TrimSpaceLeft(data))
    IN  t /= <<>> /\ \A i \in 1 .. Len(t) : t[i] = "1"

\* json.Compact: the insignificant spaces are removed
JsonCompact(data) == SelectSeq(data, LAMBDA b : b /= " ")

\* ---------------------------------------------------------------- header.go
\* A wire header (http.Header, textproto.MIMEHeader) is a function from keys
\* to sequences of values.  A folded header (Header, map[string]interface{})
\* maps each key to a value with its Go type t: "string", "[]string", or, as
\* encoding/json decodes an array into an interface{}, "[]interface{}".
NilHeader == <<>>

\* http.Header.Get(key): the first value, "" when there is none
HeaderGet(header, key) ==
    IF key \in DOMAIN header /\ header[key] /= <<>> THEN header[key][1] ELSE ""

\* Header.FromHttpHeader / Header.FromMIMEHeader, on a nil Header
FromHttpHeader(header) ==
    IF DOMAIN header = {} THEN NilHeader
    ELSE [k \in {x \in DOMAIN header : Len(header[x]) /= 0} |->
            IF Len(header[k]) = 1
            THEN [t |-> "string", v |-> <<header[k][1]>>]
            ELSE [t |-> "[]string", v |-> header[k]]]

\* delete(header, key)
DeleteKey(h, key) == [k \in DOMAIN h \ {key} |-> h[k]]

\* Header.ToHttpHeader / Header.ToMIMEHeader: the type switch has the cases
\* string and []string, a value of another type leaves its key out
ToHttpHeader(h) ==
    [k \in {x \in DOMAIN h : h[x].t \in {"string", "[]string"}} |-> h[k].v]

\* header.Set(key, value)
HeaderSet(header, key, value) == (key :> <<value>>) @@ header

\* ---------------------------------------------------------------- main.go
\* RequestResponse and MultiPart; "" and nil are the empty sequence, and the
\* empty file name is NoName
RequestResponse(header, oce, body, bodyFile, bodyJson, bodyMultiPart) ==
    [Header |-> header, OriginalContentEncoding |-> oce, Body |-> body,
     BodyFile |-> bodyFile, BodyJson |-> bodyJson, BodyMultiPart |-> bodyMultiPart]

MultiPart(header, content, contentFile, contentJson) ==
    [Header |-> header, Content |-> content, ContentFile |-> contentFile,
     ContentJson |-> contentJson]

\* ---------------------------------------------------------------- encoding/json
\* json.Encoder.Encode of a Header: a string is a JSON string, a []string a
\* JSON array
EncodeHeader(h) ==
    [k \in DOMAIN h |-> [j |-> IF h[k].t = "string" THEN "string" ELSE "array", v |-> h[k].v]]

\* json.Decoder.Decode into a map[string]interface{}: a JSON string is a
\* string, a JSON array a []interface{}
DecodeHeader(j) ==
    [k \in DOMAIN j |->
        [t |-> IF j[k].j = "string" THEN "string" ELSE "[]interface{}", v |-> j[k].v]]

\* a json.RawMessage is compacted when it is encoded (and indented with the
\* rest of the document, which a scalar does not show)
EncodeRaw(data) == JsonCompact(data)

EncodePart(part) ==
    [part EXCEPT !.Header = EncodeHeader(part.Header),
                 !.ContentJson = EncodeRaw(part.ContentJson)]

DecodePart(j) == [j EXCEPT !.Header = DecodeHeader(j.Header)]

\* saveRecord's enc.Encode(record): the JSON document of a record
EncodeRecord(request) ==
    [request EXCEPT !.Header = EncodeHeader(request.Header),
                    !.BodyJson = EncodeRaw(request.BodyJson),
                    !.BodyMultiPart = [i \in 1 .. Len(request.BodyMultiPart) |->
                                          EncodePart(request.BodyMultiPart[i])]]

\* loadRecord's dec.Decode(record)
DecodeRecord(j) ==
    [j EXCEPT !.Header = DecodeHeader(j.Header),
              !.BodyMultiPart = [i \in 1 .. Len(j.BodyMultiPart) |->
                                    DecodePart(j.BodyMultiPart[i])]]

\* ---------------------------------------------------------------- server.go: the classifiers
\* A result carries the files as the call leaves them and how the call
\* ended: "ok", "err" (an error is returned) or "panic".

\* readJson(r): at most JsonCap bytes are read (io.LimitReader), and checked
readJson(stream) ==
    LET data == Take(stream, JsonCap)
    IN  IF ~JsonValid(data)
        THEN [data |-> <<>>, end |-> "err"]
        ELSE [data |-> data, end |-> "ok"]

\* saveBody returning the bytes it peeked together with the name of the file
\* it spooled them to
saveBodyKeepsText(stream, contentType, recommendFilename, files, diskOk) ==
    LET n == Min(Len(stream), PeekWindow)
        buffer == Take(stream, n)
        ext == ExtensionsByType(contentType)
        name == [recommendFilename EXCEPT !.ext = ext[1]]
    IN  IF Len(stream) = 0
        THEN [Body |-> <<>>, BodyFile |-> NoName, files |-> files, end |-> "ok"]
        ELSE IF n < PeekWindow /\ \A i \in 1 .. Len(buffer) : IsPrintable(buffer[i])
        THEN [Body |-> buffer, BodyFile |-> NoName, files |-> files, end |-> "ok"]
        ELSE IF Len(ext) = 0
        THEN [Body |-> <<>>, BodyFile |-> NoName, files |-> files, end |-> "panic"]
        ELSE IF ~CanCreate(files, <<name>>, diskOk)
        THEN [Body |-> <<>>, BodyFile |-> NoName, files |-> files, end |-> "err"]
        ELSE [Body |-> buffer, BodyFile |-> name,
              files |-> WriteFile(files, <<name>>, BytesFile(buffer \o Drop(stream, n))),
              end |-> "ok"]

\* saveBody(r, contentType, recommendFilename)
saveBody(stream, contentType, recommendFilename, files, diskOk) ==
    LET n == Min(Len(stream), PeekWindow)
        \* io.ReadFull: io.EOF for no byte, io.ErrUnexpectedEOF for fewer than
        \* the window, no error when the window is filled
        hasMore == n = PeekWindow
        buffer == Take(stream, n)
        ext == ExtensionsByType(contentType)
        name == [recommendFilename EXCEPT !.ext = ext[1]]
    IN  IF Len(stream) = 0 /\ PeekWindow > 0
        THEN [Body |-> <<>>, BodyFile |-> NoName, files |-> files, end |-> "ok"]
        ELSE IF ~hasMore /\ \A i \in 1 .. Len(buffer) : IsPrintable(buffer[i])
        THEN [Body |-> buffer, BodyFile |-> NoName, files |-> files, end |-> "ok"]
        \* saveFile: len(ext) >= 0 holds of every ext, and ext[0] is read
        ELSE IF Len(ext) = 0
        THEN [Body |-> <<>>, BodyFile |-> NoName, files |-> files, end |-> "panic"]
        ELSE IF ~CanCreate(files, <<name>>, diskOk)
        THEN [Body |-> <<>>, BodyFile |-> NoName, files |-> files, end |-> "err"]
        ELSE [Body |-> <<>>, BodyFile |-> name,
              files |-> WriteFile(files, <<name>>, BytesFile(buffer \o Drop(stream, n))),
              end |-> "ok"]

\* p.FileName(): the filename parameter of the part's Content-Disposition
NoFile == [stem |-> "", ext |-> ""]

FileName(header) ==
    LET d == HeaderGet(header, "Content-Disposition")
    IN  CASE d = "form-data; name=x; filename=f.png" -> [stem |-> "f", ext |-> ".png"]
          [] OTHER -> NoFile

\* one turn of the loop of readMultiPart, on part p with n parts without a
\* file name before it
readPart(p, jsonFilename, n, files, diskOk) ==
    LET header == FromHttpHeader(p.header)
        contentType == HeaderGet(p.header, "Content-Type")
        recommendFilename ==
            IF FileName(p.header) /= NoFile
            THEN PartHint(jsonFilename, FileName(p.header))
            ELSE MultipartHint(jsonFilename, n)
        n2 == IF FileName(p.header) /= NoFile THEN n ELSE n + 1
        js == readJson(p.payload)
        sb == saveBody(p.payload, contentType, recommendFilename, files, diskOk)
    IN  IF isContentJson(contentType)
        THEN [part |-> MultiPart(header, <<>>, NoName, js.data), n |-> n,
              files |-> files, end |-> js.end]
        ELSE [part |-> MultiPart(header, sb.Body, sb.BodyFile, <<>>), n |-> n2,
              files |-> sb.files, end |-> sb.end]

\* readMultiPart(r, contentType, jsonFilename): the parts in order; the loop
\* ends with the first part that fails, and with an error after the last
\* part when the framing of the body is broken
RECURSIVE readMultiPartFrom(_, _, _, _, _, _, _)
readMultiPartFrom(parts, framingOk, jsonFilename, n, files, diskOk, multiParts) ==
    IF parts = <<>>
    THEN [multiParts |-> IF framingOk THEN multiParts ELSE <<>>, files |-> files,
          end |-> IF framingOk THEN "ok" ELSE "err"]
    ELSE LET r == readPart(Head(parts), jsonFilename, n, files, diskOk)
         IN  IF r.end /= "ok"
             THEN [multiParts |-> <<>>, files |-> r.files, end |-> r.end]
             ELSE readMultiPartFrom(Tail(parts), framingOk, jsonFilename, r.n, r.files,
                                    diskOk, Append(multiParts, r.part))

readMultiPart(parts, framingOk, jsonFilename, files, diskOk) ==
    readMultiPartFrom(parts, framingOk, jsonFilename, 0, files, diskOk, <<>>)

\* ---------------------------------------------------------------- requests
\* A request: its wire header, and its body as bytes or, for a multipart
\* body, as parts (each a wire header and a payload) with framingOk false
\* when the stream breaks off after the last part.
Request(header, body, parts, framingOk) ==
    [header |-> header, body |-> body, parts |-> parts, framingOk |-> framingOk]

NoRequest == Request(<<>>, <<>>, <<>>, TRUE)

WireHeader(contentType, extra) ==
    IF contentType = "" THEN extra ELSE ("Content-Type" :> <<contentType>>) @@ extra

ExtraHeaders ==
    {<<>>, "Accept" :> <<"a">>, "Accept" :> <<"a", "b">>, "Content-Encoding" :> <<"gzip">>}

Bodies == SeqsUpTo(Byte, PeekWindow + 1)

PlainRequests ==
    {Request(WireHeader(ct, e), b, <<>>, TRUE) :
        ct \in {"", PngType, UnknownType, JsonType}, e \in ExtraHeaders, b \in Bodies}

Part(disposition, contentType, payload) ==
    [header |-> WireHeader(contentType, "Content-Disposition" :> <<disposition>>),
     payload |-> payload]

\* a JSON number one digit longer than the cap of readJson
LongJson == [i \in 1 .. JsonCap + 1 |-> "1"]

Parts ==
    {Part(d, ct, pl) :
        d \in {"form-data; name=x", "form-data; name=x; filename=f.png"},
        ct \in {"", PngType, JsonType},
        pl \in {<<>>, <<"1">>, <<"#">>, <<"1", "#">>}}
        \cup {Part("form-data; name=x", JsonType, LongJson)}

\* the bodies that end with the closing boundary, and the body of no byte,
\* where mr.NextPart returns an error that is not io.EOF
MultipartRequests ==
    {Request(WireHeader(MultipartType, <<>>), <<>>, ps, TRUE) : ps \in SeqsUpTo(Parts, MaxParts)}
        \cup {Request(WireHeader(MultipartType, <<>>), <<>>, <<>>, FALSE)}

AllRequests == PlainRequests \cup MultipartRequests

\* one request of each way a capture can end, for the concurrent server
SomeRequests ==
    {Request(WireHeader("", <<>>), <<"1">>, <<>>, TRUE),
     Request(WireHeader(PngType, <<>>), <<"#">>, <<>>, TRUE),
     Request(WireHeader(UnknownType, <<>>), <<"#">>, <<>>, TRUE),
     Request(WireHeader(JsonType, <<>>), <<"#">>, <<>>, TRUE),
     Request(WireHeader(MultipartType, <<>>), <<>>,
             <<Part("form-data; name=x; filename=f.png", PngType, <<"#">>)>>, FALSE)}

\* ---------------------------------------------------------------- state
VARIABLES
    conf,     \* what the server starts with: the flags saveDir and num, and
              \* the entries of the save directory
    fs,       \* the file system
    num,      \* the int32 counter of httpHandler
    alive,    \* the server process runs
    disk,     \* "ok", or "failing": os.Create returns an error
    hs,       \* the handlers: pc, request, requestNum, filename, classified
              \* (how the classification ended), record, status
    cl,       \* the replay client: pc, cwd, file, record, header, opened, body, err
    pipe,     \* io.Pipe of parseRecordBody: data, closed, err
    prod,     \* the producer goroutine: pc, i, err, closeArg, opened
    cons      \* the consumer of the request body: received, readErr

vars == <<conf, fs, num, alive, disk, hs, cl, pipe, prod, cons>>

serverVars == <<conf, fs, num, alive, disk, hs>>

clientVars == <<cl, pipe, prod, cons>>

NoRecord == RequestResponse(NilHeader, "", <<>>, NoName, <<>>, <<>>)

IdleHandler ==
    [pc |-> "idle", req |-> NoRequest, requestNum |-> 0, filename |-> NoName,
     classified |-> "", record |-> NoRecord, status |-> 0]

IdleClient ==
    [pc |-> "idle", cwd |-> <<>>, file |-> <<>>, record |-> NoRecord, header |-> <<>>,
     opened |-> <<>>, body |-> <<>>, err |-> ""]

IdlePipe == [data |-> <<>>, closed |-> FALSE, err |-> ""]

IdleProducer == [pc |-> "idle", i |-> 1, err |-> "", closeArg |-> "", opened |-> <<>>]

IdleConsumer == [received |-> <<>>, readErr |-> ""]

\* the base of a record file name: time, method and path of the request
RequestBase == "_T_POST_up"

SaveName == Name("", <<>>, "save", "", "")

\* ---------------------------------------------------------------- server.go: httpHandler
\* the body of the handler between the file name and saveRecord: the record
\* with its header and its classified body
Classify(req, filename, files, diskOk) ==
    LET folded == FromHttpHeader(req.header)
        header == IF folded = NilHeader THEN NilHeader ELSE DeleteKey(folded, "Content-Encoding")
        oce == HeaderGet(req.header, "Content-Encoding")
        contentType == HeaderGet(req.header, "Content-Type")
        mp == readMultiPart(req.parts, req.framingOk, filename, files, diskOk)
        js == readJson(req.body)
        sb == saveBody(req.body, contentType, BodyHint(filename), files, diskOk)
    IN  IF isContentMultiPart(contentType)
        THEN [record |-> RequestResponse(header, oce, <<>>, NoName, <<>>, mp.multiParts),
              files |-> mp.files, end |-> mp.end]
        ELSE IF isContentJson(contentType)
        THEN [record |-> RequestResponse(header, oce, <<>>, NoName, js.data, <<>>),
              files |-> files, end |-> js.end]
        ELSE [record |-> RequestResponse(header, oce, sb.Body, sb.BodyFile, <<>>, <<>>),
              files |-> sb.files, end |-> sb.end]

\* the server starts: num is the flag, or maxFileNum(saveDir) when the flag
\* is not positive
StartNum(flag, files, saveDir) ==
    IF flag <= 0 THEN maxFileNum(files, saveDir) ELSE flag

\* a request arrives and its handler starts
Accept(h, requests) ==
    /\ alive
    /\ hs[h].pc = "idle"
    /\ \E req \in requests : hs' = [hs EXCEPT ![h] = [@ EXCEPT !.pc = "start", !.req = req]]
    /\ UNCHANGED <<conf, fs, num, alive, disk, clientVars>>

\* AllocNum with the counter read and written apart, the increment of
\* another handler lost
AllocNumRacy(h) ==
    /\ alive
    /\ hs[h].pc = "start"
    /\ \E seen \in {num} \cup {hs[g].requestNum - 1 : g \in {x \in Handlers : hs[x].requestNum /= 0}} :
          /\ num' = AddInt32(seen)
          /\ hs' = [hs EXCEPT ![h] = [@ EXCEPT !.pc = "classify", !.requestNum = num',
                                               !.filename = RecordFilename(num', RequestBase)]]
    /\ UNCHANGED <<conf, fs, alive, disk, clientVars>>

\* requestNum := atomic.AddInt32(&num, 1), and the file name
AllocNum(h) ==
    /\ alive
    /\ hs[h].pc = "start"
    /\ num' = AddInt32(num)
    /\ hs' = [hs EXCEPT ![h] = [@ EXCEPT !.pc = "classify", !.requestNum = num',
                                         !.filename = RecordFilename(num', RequestBase)]]
    /\ UNCHANGED <<conf, fs, alive, disk, clientVars>>

\* ClassifyBody with the handler going on to saveRecord after an error
ClassifyBodyGoesOn(h) ==
    /\ alive
    /\ hs[h].pc = "classify"
    /\ LET r == Classify(hs[h].req, hs[h].filename, fs, disk = "ok")
       IN  /\ fs' = r.files
           /\ hs' = [hs EXCEPT ![h] = [@ EXCEPT !.pc = "save", !.classified = r.end,
                                                !.record = r.record]]
    /\ UNCHANGED <<conf, num, alive, disk, clientVars>>

\* the classification of the body; an error ends in log.Fatalf, which exits
\* the process before the lines that would answer 400 or 500; a panic is
\* recovered by net/http, which drops the connection
ClassifyBody(h) ==
    /\ alive
    /\ hs[h].pc = "classify"
    /\ LET r == Classify(hs[h].req, hs[h].filename, fs, disk = "ok")
       IN  /\ fs' = r.files
           /\ CASE r.end = "ok" ->
                     /\ hs' = [hs EXCEPT ![h] = [@ EXCEPT !.pc = "save", !.classified = "ok",
                                                          !.record = r.record]]
                     /\ alive' = alive
                [] r.end = "panic" ->
                     /\ hs' = [hs EXCEPT ![h] = [@ EXCEPT !.pc = "panicked", !.classified = "panic"]]
                     /\ alive' = alive
                [] OTHER ->
                     /\ hs' = [hs EXCEPT ![h] = [@ EXCEPT !.pc = "fatal", !.classified = "err"]]
                     /\ alive' = FALSE
    /\ UNCHANGED <<conf, num, disk, clientVars>>

\* saveRecord(saveDir, filename, &record); an error ends in log.Fatalf
SaveRecord(h) ==
    /\ alive
    /\ hs[h].pc = "save"
    /\ LET path == Join(conf.saveDir, hs[h].filename)
       IN  IF CanCreate(fs, path, disk = "ok")
           THEN /\ fs' = WriteFile(fs, path, RecordFile(EncodeRecord(hs[h].record)))
                /\ hs' = [hs EXCEPT ![h] = [@ EXCEPT !.pc = "respond"]]
                /\ alive' = alive
           ELSE /\ fs' = fs
                /\ hs' = [hs EXCEPT ![h] = [@ EXCEPT !.pc = "fatal"]]
                /\ alive' = FALSE
    /\ UNCHANGED <<conf, num, disk, clientVars>>

\* responser(w, r): simpleResponse writes the status of the flag
Respond(h) ==
    /\ alive
    /\ hs[h].pc = "respond"
    /\ hs' = [hs EXCEPT ![h] = [@ EXCEPT !.pc = "done", !.status = 200]]
    /\ UNCHANGED <<conf, fs, num, alive, disk, clientVars>>

\* the disk fills up: from here os.Create fails
DiskFails ==
    /\ alive
    /\ disk = "ok"
    /\ disk' = "failing"
    /\ UNCHANGED <<conf, fs, num, alive, hs, clientVars>>

\* ---------------------------------------------------------------- client.go: clientCmd
\* the record files of the save directory
RecordPaths(files) == {p \in DOMAIN files : files[p].kind = "record"}

\* a path of the file system, as the client names it from its working directory
RelativeTo(cwd, path) == SubSeq(path, Len(cwd) + 1, Len(path))

\* the client starts on a record file, from the working directory of the
\* server or from the save directory: loadRecord(file, &record)
ClientLoad ==
    /\ cl.pc = "idle"
    /\ \E path \in RecordPaths(fs), cwd \in {<<>>, conf.saveDir} :
           cl' = [cl EXCEPT !.pc = "loaded", !.cwd = cwd, !.file = RelativeTo(cwd, path),
                            !.record = DecodeRecord(fs[path].json)]
    /\ UNCHANGED <<serverVars, pipe, prod, cons>>

\* req.Header = record.Request.Header.ToHttpHeader()
ClientHeader ==
    /\ cl.pc = "loaded"
    /\ cl' = [cl EXCEPT !.pc = "unfolded", !.header = ToHttpHeader(cl.record.Header)]
    /\ UNCHANGED <<serverVars, pipe, prod, cons>>

\* the path parseRecordBody opens for a body_file or content_file:
\* filepath.Join(baseDir, name), where clientCmd passes
\* filepath.Base(c.String("file")) as baseDir; from the client's directory
OpenPath(cwd, file, name) == cwd \o Join(<<Base(file)>>, name)

\* header.Set("Content-Type", value) when the header has none
DefaultContentType(header, value) ==
    IF HeaderGet(header, "Content-Type") = "" THEN HeaderSet(header, "Content-Type", value)
    ELSE header

\* the argument of the deferred pWriter.CloseWithError(_err): the arguments
\* of a deferred call are evaluated at the defer statement, the first of the
\* goroutine, where _err is nil (prod.closeArg); the error the goroutine
\* returns later is not read again
CloseArg(errAtDefer, errAtReturn) == errAtDefer

\* parseRecordBody(record.Request, req.Header, baseDir)
ClientBody ==
    /\ cl.pc = "unfolded"
    /\ LET req == cl.record
           path == OpenPath(cl.cwd, cl.file, req.BodyFile)
       IN  IF req.BodyFile /= NoName
           THEN /\ cl' = [cl EXCEPT
                            !.header = DefaultContentType(cl.header, TypeByExtension(req.BodyFile.ext)),
                            !.opened = path,
                            !.pc = IF IsFile(fs, path) THEN "sending" ELSE "failed",
                            !.err = IF IsFile(fs, path) THEN "" ELSE "open",
                            !.body = IF IsFile(fs, path) /\ fs[path].kind = "bytes"
                                     THEN fs[path].bytes ELSE <<>>]
                /\ UNCHANGED <<pipe, prod>>
           ELSE IF req.BodyJson /= <<>>
           THEN /\ cl' = [cl EXCEPT !.header = DefaultContentType(cl.header, JsonType),
                                    !.pc = "sending", !.body = JsonCompact(req.BodyJson)]
                /\ UNCHANGED <<pipe, prod>>
           ELSE IF req.BodyMultiPart /= <<>>
           THEN /\ cl' = [cl EXCEPT !.header = DefaultContentType(cl.header, MultipartType),
                                    !.pc = "piping"]
                /\ pipe' = IdlePipe
                /\ prod' = [pc |-> "part", i |-> 1, err |-> "", closeArg |-> "", opened |-> <<>>]
           ELSE /\ cl' = [cl EXCEPT !.header = DefaultContentType(cl.header, "text/plain"),
                                    !.pc = "sending", !.body = req.Body]
                /\ UNCHANGED <<pipe, prod>>
    /\ UNCHANGED <<serverVars, cons>>

\* client.Do(req) with a body that is no pipe: the body is read to its end
ClientSend ==
    /\ cl.pc = "sending"
    /\ cl' = [cl EXCEPT !.pc = "sent"]
    /\ cons' = [received |-> <<[kind |-> "data", header |-> <<>>, bytes |-> cl.body]>>,
                readErr |-> "EOF"]
    /\ UNCHANGED <<serverVars, pipe, prod>>

\* ------------------------------------------------ the producer goroutine
\* A write on the pipe returns when the reader has taken the bytes: the
\* producer takes a step only with the pipe empty.
Chunk(kind, header, bytes) == [kind |-> kind, header |-> header, bytes |-> bytes]

\* mw.CreatePart(part.Header.ToMIMEHeader()), or the end of the loop
ProducerCreatePart ==
    /\ cl.pc = "piping" /\ prod.pc = "part" /\ pipe.data = <<>>
    /\ IF prod.i > Len(cl.record.BodyMultiPart)
       THEN /\ prod' = [prod EXCEPT !.pc = "mwClose"]
            /\ pipe' = pipe
       ELSE /\ prod' = [prod EXCEPT !.pc = "payload"]
            /\ pipe' = [pipe EXCEPT !.data =
                          <<Chunk("part", ToHttpHeader(cl.record.BodyMultiPart[prod.i].Header), <<>>)>>]
    /\ UNCHANGED <<serverVars, cl, cons>>

\* the payload of part i: the content file, the JSON or the text; a file
\* that cannot be opened returns the error
ProducerPayload ==
    /\ cl.pc = "piping" /\ prod.pc = "payload" /\ pipe.data = <<>>
    /\ LET part == cl.record.BodyMultiPart[prod.i]
           path == OpenPath(cl.cwd, cl.file, part.ContentFile)
       IN  IF part.ContentFile /= NoName
           THEN IF IsFile(fs, path) /\ fs[path].kind = "bytes"
                THEN /\ pipe' = [pipe EXCEPT !.data = <<Chunk("data", <<>>, fs[path].bytes)>>]
                     /\ prod' = [prod EXCEPT !.pc = "part", !.i = @ + 1, !.opened = path]
                ELSE /\ pipe' = pipe
                     /\ prod' = [prod EXCEPT !.pc = "mwClose", !.err = "open", !.opened = path]
           ELSE IF part.ContentJson /= <<>>
           THEN /\ pipe' = [pipe EXCEPT !.data = <<Chunk("data", <<>>, part.ContentJson)>>]
                /\ prod' = [prod EXCEPT !.pc = "part", !.i = @ + 1]
           ELSE /\ pipe' = [pipe EXCEPT !.data = <<Chunk("data", <<>>, part.Content)>>]
                /\ prod' = [prod EXCEPT !.pc = "part", !.i = @ + 1]
    /\ UNCHANGED <<serverVars, cl, cons>>

\* the deferred mw.Close(): the closing boundary is written
ProducerMwClose ==
    /\ cl.pc = "piping" /\ prod.pc = "mwClose" /\ pipe.data = <<>>
    /\ pipe' = [pipe EXCEPT !.data = <<Chunk("close", <<>>, <<>>)>>]
    /\ prod' = [prod EXCEPT !.pc = "pipeClose"]
    /\ UNCHANGED <<serverVars, cl, cons>>

\* the deferred pWriter.CloseWithError(_err)
ProducerCloseWithError ==
    /\ cl.pc = "piping" /\ prod.pc = "pipeClose" /\ pipe.data = <<>>
    /\ pipe' = [pipe EXCEPT !.closed = TRUE, !.err = CloseArg(prod.closeArg, prod.err)]
    /\ prod' = [prod EXCEPT !.pc = "done"]
    /\ UNCHANGED <<serverVars, cl, cons>>

\* ------------------------------------------------ the consumer
\* a read of the pipe: the bytes written, or at a closed pipe its error,
\* io.EOF when it was closed with nil
ConsumerRead ==
    /\ cl.pc = "piping"
    /\ \/ /\ pipe.data /= <<>>
          /\ cons' = [cons EXCEPT !.received = Append(@, pipe.data[1])]
          /\ pipe' = [pipe EXCEPT !.data = <<>>]
          /\ cl' = cl
       \/ /\ pipe.data = <<>> /\ pipe.closed
          /\ cons' = [cons EXCEPT !.readErr = IF pipe.err = "" THEN "EOF" ELSE pipe.err]
          /\ cl' = [cl EXCEPT !.pc = IF pipe.err = "" THEN "sent" ELSE "failed",
                              !.err = pipe.err]
          /\ pipe' = pipe
    /\ UNCHANGED <<serverVars, prod>>

\* ---------------------------------------------------------------- specifications
\* what the save directory holds when the server starts: names, each a file
\* or a directory
OldFile(n, base) == [name |-> Name("", n, base, "", ".json"), isDir |-> FALSE]

NoFiles == {}

TwoRecords == {OldFile(<<0, 0, 0, 7>>, "_a"), OldFile(<<0, 0, 0, 3>>, "_b")}

\* the flags and the save directory the server starts with
Configs ==
    {[saveDir |-> <<>>, num |-> 0, entries |-> NoFiles],
     [saveDir |-> <<>>, num |-> 0, entries |-> TwoRecords],
     [saveDir |-> <<SaveName>>, num |-> 0, entries |-> TwoRecords],
     [saveDir |-> <<>>, num |-> 5, entries |-> TwoRecords],
     \* a file named 0009, of digits only
     [saveDir |-> <<>>, num |-> 0,
      entries |-> {[name |-> Name("", <<0, 0, 0, 9>>, "", "", ""), isDir |-> FALSE],
                   OldFile(<<0, 0, 0, 3>>, "_b")}],
     [saveDir |-> <<>>, num |-> 0, entries |-> {OldFile(<<0, 0, 0, 0>>, "_z")}],
     \* a directory 0011_d and a file cert.pem
     [saveDir |-> <<>>, num |-> 0,
      entries |-> {[name |-> Name("", <<0, 0, 1, 1>>, "_d", "", ""), isDir |-> TRUE],
                   [name |-> Name("", <<>>, "cert", "", ".pem"), isDir |-> FALSE],
                   OldFile(<<0, 0, 0, 3>>, "_b")}],
     [saveDir |-> <<>>, num |-> 0, entries |-> {OldFile(DecDigits(MaxInt32 - 1), "_m")}]}

\* one capture and its replay: an empty save directory, the working
\* directory or a directory below it
ReplayConfigs ==
    {[saveDir |-> sd, num |-> 0, entries |-> NoFiles] : sd \in {<<>>, <<SaveName>>}}

InitialFiles(saveDir, entries) ==
    LET paths == {Join(saveDir, e.name) : e \in entries}
        dirs == {Join(saveDir, e.name) : e \in {x \in entries : x.isDir}}
                    \cup (IF saveDir = <<>> THEN {} ELSE {saveDir})
    IN  [p \in paths \cup dirs |-> IF p \in dirs THEN DirEntry ELSE BytesFile(<<>>)]

InitServer(configs) ==
    /\ \E c \in configs :
          /\ conf = c
          /\ fs = InitialFiles(c.saveDir, c.entries)
          /\ num = StartNum(c.num, InitialFiles(c.saveDir, c.entries), c.saveDir)
    /\ alive = TRUE
    /\ disk = "ok"
    /\ hs = [h \in Handlers |-> IdleHandler]
    /\ cl = IdleClient
    /\ pipe = IdlePipe
    /\ prod = IdleProducer
    /\ cons = IdleConsumer

\* the capture server with its concurrent handlers
Init == InitServer(Configs)

Next ==
    \/ \E h \in Handlers : Accept(h, SomeRequests)
    \/ \E h \in Handlers : AllocNum(h)
    \/ \E h \in Handlers : ClassifyBody(h)
    \/ \E h \in Handlers : SaveRecord(h)
    \/ \E h \in Handlers : Respond(h)
    \/ DiskFails

Spec == Init /\ [][Next]_vars

\* one request captured, then replayed by the client
InitReplay == InitServer(ReplayConfigs)

NextReplay ==
    \/ Accept(1, AllRequests)
    \/ AllocNum(1)
    \/ ClassifyBody(1)
    \/ SaveRecord(1)
    \/ Respond(1)
    \/ ClientLoad
    \/ ClientHeader
    \/ ClientBody
    \/ ClientSend
    \/ ProducerCreatePart
    \/ ProducerPayload
    \/ ProducerMwClose
    \/ ProducerCloseWithError
    \/ ConsumerRead

SpecReplay == InitReplay /\ [][NextReplay]_vars

\* ---------------------------------------------------------------- properties
\* the handlers that have their sequence number
Numbered == {h \in Handlers : hs[h].pc \notin {"idle", "start"}}

\* the path of the record file of handler h
RecordPath(h) == Join(conf.saveDir, hs[h].filename)

\* C1: a failure while classifying or saving one request is confined to it:
\* the handler answers it with a status 4xx or 5xx and the server keeps
\* running.
C1_FailureConfined ==
    \A h \in Handlers :
        hs[h].pc \in {"fatal", "panicked"} => alive /\ hs[h].status \in 400 .. 599

\* the largest of a set of numbers, d for the empty set
MaxOf(S, d) == IF S = {} THEN d ELSE CHOOSE n \in S : \A m \in S : m <= n

\* the i-th number after n, in int32 arithmetic
After(n, i) == IF n <= MaxInt32 - i THEN n + i ELSE MinInt32 + (i - (MaxInt32 - n) - 1)

\* the seed as the claim states it: the largest leading decimal prefix among
\* the files of the save directory, 1 if there is none
ClaimedSeed ==
    MaxOf({Atoi(e.name.digits) : e \in {x \in conf.entries : ~x.isDir /\ x.name.digits /= <<>>}}, 1)

CodeSeed ==
    IF conf.num > 0 THEN conf.num
    ELSE MaxOf({Atoi(e.name.digits) :
                   e \in {x \in conf.entries :
                            /\ ~x.isDir
                            /\ x.name.sign = "" /\ x.name.digits /= <<>>
                            /\ (x.name.base /= "" \/ x.name.part /= "" \/ x.name.ext /= "")}}
               \cup {1}, 1)

C4_RecordAfterClassification ==
    \A h \in Numbered :
        RecordPath(h) \in DOMAIN fs =>
            /\ hs[h].classified = "ok"
            /\ hs[h].pc \in {"respond", "done"}
            /\ fs[RecordPath(h)] = RecordFile(EncodeRecord(hs[h].record))

\* the classification of one transaction has failed and the record file of
\* another is written
C4_Witness ==
    \E g, h \in Numbered :
        /\ hs[g].classified \in {"err", "panic"} /\ RecordPath(g) \notin DOMAIN fs
        /\ hs[h].classified = "ok" /\ RecordPath(h) \in DOMAIN fs

\* the parts a receiver reads from the chunks of a multipart stream: each
\* part chunk opens a part, the data chunks after it are its payload
RECURSIVE GroupParts(_, _)
GroupParts(chunks, acc) ==
    IF chunks = <<>> THEN acc
    ELSE LET c == Head(chunks)
         IN  CASE c.kind = "part" ->
                    GroupParts(Tail(chunks), Append(acc, [header |-> c.header, payload |-> <<>>]))
               [] c.kind = "data" /\ acc /= <<>> ->
                    GroupParts(Tail(chunks), [acc EXCEPT ![Len(acc)].payload = @ \o c.bytes])
               [] OTHER -> GroupParts(Tail(chunks), acc)

EndsWithClosingBoundary(chunks) == chunks /= <<>> /\ chunks[Len(chunks)].kind = "close"

\* C2: when the producer goroutine stops with an error, the consumer's read
\* of the pipe ends with that error, not with a clean end of the body, and
\* the body does not end with the closing boundary.
C2_ProducerErrorReachesConsumer ==
    (prod.err /= "" /\ cons.readErr /= "") =>
        /\ cons.readErr = prod.err
        /\ ~EndsWithClosingBoundary(cons.received)

ContentTypeOf(h) == HeaderGet(hs[h].req.header, "Content-Type")

\* the request of handler h has a body that is neither multipart nor JSON
IsPlain(h) == ~isContentMultiPart(ContentTypeOf(h)) /\ ~isContentJson(ContentTypeOf(h))

AllPrintable(bytes) == \A i \in 1 .. Len(bytes) : bytes[i] \in {"1", " "}

\* C5: a body of printable bytes that fills the peek window exactly is
\* captured inline, with body_file empty; with one byte more it is spooled,
\* with body empty.
C5_TextThreshold ==
    \A h \in Handlers :
        (hs[h].classified /= "" /\ IsPlain(h) /\ AllPrintable(hs[h].req.body)) =>
            /\ Len(hs[h].req.body) = PeekWindow =>
                  /\ hs[h].classified = "ok"
                  /\ hs[h].record.Body = hs[h].req.body
                  /\ hs[h].record.BodyFile = NoName
            /\ Len(hs[h].req.body) = PeekWindow + 1 =>
                  /\ hs[h].classified = "ok"
                  /\ hs[h].record.Body = <<>>
                  /\ hs[h].record.BodyFile /= NoName

\* the name of the spool file of the body of handler h: the hint, with its
\* extension replaced when the content type has a registered one
SpoolName(h) ==
    IF ContentTypeOf(h) = PngType THEN [BodyHint(hs[h].filename) EXCEPT !.ext = ".png"]
    ELSE BodyHint(hs[h].filename)

\* C6: a body with a byte that is not printable within the peek window is
\* captured, for every content type, with body_file set and body empty; the
\* spool file holds the bytes of the body, and its name is the hint with
\* the extension replaced only for a content type with a registered one.
C6_BinarySpooled ==
    \A h \in Handlers :
        (/\ hs[h].classified /= ""
         /\ IsPlain(h)
         /\ \E i \in 1 .. Min(Len(hs[h].req.body), PeekWindow) : hs[h].req.body[i] = "#") =>
            /\ hs[h].classified = "ok"
            /\ hs[h].record.Body = <<>>
            /\ hs[h].record.BodyFile = SpoolName(h)
            /\ \E p \in DOMAIN fs : Base(p) = SpoolName(h) /\ fs[p] = BytesFile(hs[h].req.body)

\* C7: the header the client sends for a record is the wire header of the
\* captured request without Content-Encoding and without the keys that have
\* no value: every other key with all its values, in wire order.
C7_HeaderRoundTrip ==
    cl.pc = "unfolded" =>
        LET H == hs[1].req.header
        IN  cl.header = [k \in {x \in DOMAIN H : H[x] /= <<>>} \ {"Content-Encoding"} |-> H[k]]

\* C8: the multipart body the client sends for the record of a multipart
\* request has the parts of the request, in order, each with its headers
\* and its payload.
C8_MultipartRoundTrip ==
    (cl.pc \in {"sent", "failed"} /\ isContentMultiPart(ContentTypeOf(1))) =>
        /\ cl.pc = "sent"
        /\ GroupParts(cons.received, <<>>) = hs[1].req.parts

\* the directory of the record file the client was started on
RecordDir == Dir1(cl.cwd \o cl.file)

\* C9: a spooled body or part file lies in the directory of the record file
\* that names it, and the path the client opens for a body_file or
\* content_file is that name in the directory of the record file.
C9_SiblingFiles ==
    /\ \A h \in Handlers :
          hs[h].classified = "ok" =>
              /\ hs[h].record.BodyFile /= NoName =>
                    IsFile(fs, Join(conf.saveDir, hs[h].record.BodyFile))
              /\ \A i \in 1 .. Len(hs[h].record.BodyMultiPart) :
                    hs[h].record.BodyMultiPart[i].ContentFile /= NoName =>
                        IsFile(fs, Join(conf.saveDir, hs[h].record.BodyMultiPart[i].ContentFile))
    /\ cl.opened /= <<>> => cl.opened = Join(RecordDir, cl.record.BodyFile)
    /\ prod.opened /= <<>> =>
          \E i \in 1 .. Len(cl.record.BodyMultiPart) :
              prod.opened = Join(RecordDir, cl.record.BodyMultiPart[i].ContentFile)

\* the body fields of a record, or of a part, that are not empty
BodyFields(r) ==
    {f \in {"Body", "BodyJson", "BodyMultiPart"} : r[f] /= <<>>}
        \cup (IF r.BodyFile /= NoName THEN {"BodyFile"} ELSE {})

ContentFields(part) ==
    {f \in {"Content", "ContentJson"} : part[f] /= <<>>}
        \cup (IF part.ContentFile /= NoName THEN {"ContentFile"} ELSE {})

ExclusiveFields(r) ==
    /\ Cardinality(BodyFields(r)) <= 1
    /\ \A i \in 1 .. Len(r.BodyMultiPart) : Cardinality(ContentFields(r.BodyMultiPart[i])) <= 1

\* C10: in every record of the capture, in memory and in its file, at most
\* one of body, body_file, body_json and body_multipart is not empty, and in
\* every part at most one of content, content_file and content_json.
C10_ExclusiveBodyFields ==
    /\ \A h \in Handlers : hs[h].classified = "ok" => ExclusiveFields(hs[h].record)
    /\ \A p \in RecordPaths(fs) : ExclusiveFields(fs[p].json)

\* a record file with a spooled body, or with a part that is spooled
C10_Witness ==
    \E p \in RecordPaths(fs) :
        \/ fs[p].json.BodyFile /= NoName
        \/ \E i \in 1 .. Len(fs[p].json.BodyMultiPart) :
              fs[p].json.BodyMultiPart[i].ContentFile /= NoName

\* the body of the request is of zero bytes (a multipart body that ends with
\* its closing boundary is not)
ZeroBytes(req) ==
    /\ req.body = <<>> /\ req.parts = <<>>
    /\ isContentMultiPart(HeaderGet(req.header, "Content-Type")) => ~req.framingOk

\* C11: the capture of a request with a body of zero bytes succeeds for
\* every content type, JSON included: the record, in memory and in its
\* file, has body, body_file, body_json and body_multipart all empty, and
\* the replay of the record sends a body of zero bytes.
C11_EmptyBodyCaptured ==
    \A h \in Handlers :
        (hs[h].classified /= "" /\ ZeroBytes(hs[h].req)) =>
            /\ hs[h].classified = "ok"
            /\ alive
            /\ BodyFields(hs[h].record) = {}
            /\ RecordPath(h) \in DOMAIN fs => BodyFields(fs[RecordPath(h)].json) = {}
            /\ cl.pc \in {"sent", "failed"} =>
                  /\ cl.pc = "sent"
                  /\ cons.received = <<[kind |-> "data", header |-> <<>>, bytes |-> <<>>]>>

\* a JSON stream the capture has to refuse: it has data after the cap, or
\* the bytes collected up to the cap are not valid JSON
Refused(stream) == Len(stream) > JsonCap \/ ~JsonValid(Take(stream, JsonCap))

\* the parts of the request of handler h that have a JSON content type
JsonParts(h) ==
    {i \in 1 .. Len(hs[h].req.parts) :
        isContentJson(HeaderGet(hs[h].req.parts[i].header, "Content-Type"))}

\* C12: for a body or a part with a JSON content type the capture fails
\* with an error whenever the stream has data after the cap and whenever
\* the collected bytes are not valid JSON; a body_json or content_json that
\* is stored is the whole stream, never only its bytes up to the cap.
C12_JsonCapEnforced ==
    \A h \in Handlers :
        hs[h].classified /= "" =>
            IF isContentMultiPart(ContentTypeOf(h))
            THEN /\ (\E i \in JsonParts(h) : Refused(hs[h].req.parts[i].payload)) =>
                        hs[h].classified /= "ok"
                 /\ hs[h].classified = "ok" =>
                        \A i \in JsonParts(h) :
                            hs[h].record.BodyMultiPart[i].ContentJson = hs[h].req.parts[i].payload
            ELSE isContentJson(ContentTypeOf(h)) =>
                    /\ Refused(hs[h].req.body) => hs[h].classified = "err"
                    /\ hs[h].classified = "ok" => hs[h].record.BodyJson = hs[h].req.body

====
